---- MODULE Spec2Model ----
(***************************************************************************)
(* Model of aqua_license_util.py: the argument preprocessor and command    *)
(* dispatch of main(), and the three reporting commands license_show,      *)
(* license_count and license_breakdown.  The platform client (aquasec      *)
(* library), the environment and the command line are inputs.              *)
(***************************************************************************)
EXTENDS Integers, Sequences, FiniteSets, TLC

VARIABLES
    raw_args,       \* sys.argv[1:]
    pc,             \* where main(), or the function under study, stands
    i,              \* the scan index of main(), 1-based
    filtered_args,  \* the tokens left for argparse
    global_args,    \* verbose, debug, profile
    args,           \* the argparse namespace
    stdout,         \* what was printed, in order
    exit_code,      \* the process exit status, NotExited while running
    calls,          \* the calls into the platform client, in order
    inp,            \* the inputs the environment gave the running command
    exc,            \* the exception a function under study raised, or None
    exports         \* the structures handed to the CSV / JSON exporters

vars == <<raw_args, pc, i, filtered_args, global_args, args,
          stdout, exit_code, calls, inp, exc, exports>>

(***************************************************************************)
(* Bounds                                                                  *)
(***************************************************************************)
\* the longest command line
MaxArgs == 3

\* the largest repository count and the largest repository limit of the
\* utilization rows that are enumerated in full
MaxUsed == 12
MaxLimit == 16

(***************************************************************************)
(* Python values                                                           *)
(***************************************************************************)
None == "<None>"

NotExited == -1

__version__ == "0.4.0"

Range(s) == {s[k] : k \in 1..Len(s)}

(***************************************************************************)
(* Number formatting: str(n), f"{n:,}"                                     *)
(***************************************************************************)
Digit(d) ==
    CASE d = 0 -> "0" [] d = 1 -> "1" [] d = 2 -> "2" [] d = 3 -> "3"
      [] d = 4 -> "4" [] d = 5 -> "5" [] d = 6 -> "6" [] d = 7 -> "7"
      [] d = 8 -> "8" [] d = 9 -> "9"

RECURSIVE NatToStr(_)
NatToStr(n) ==
    IF n < 10 THEN Digit(n) ELSE NatToStr(n \div 10) \o Digit(n % 10)

IntToStr(n) == IF n < 0 THEN "-" \o NatToStr(-n) ELSE NatToStr(n)

Pad3(n) == Digit(n \div 100) \o Digit((n \div 10) % 10) \o Digit(n % 10)

RECURSIVE NatToComma(_)
NatToComma(n) ==
    IF n < 1000 THEN NatToStr(n)
    ELSE NatToComma(n \div 1000) \o "," \o Pad3(n % 1000)

\* f"{n:,}"
FmtComma(n) == IF n < 0 THEN "-" \o NatToComma(-n) ELSE NatToComma(n)

(***************************************************************************)
(* The command line                                                        *)
(***************************************************************************)
VerboseFlags == {"-v", "--verbose"}
DebugFlags   == {"-d", "--debug"}
ProfileFlags == {"-p", "--profile"}
GlobalFlags  == VerboseFlags \cup DebugFlags \cup ProfileFlags

Tokens ==
    GlobalFlags \cup
    {"--version", "license", "show", "count", "breakdown", "setup",
     "profile", "list", "delete", "set-default", "--skip-repos",
     "--json-file", "--csv-file", "test"}

RawArgLists == UNION {[1..n -> Tokens] : n \in 0..MaxArgs}

DefaultGlobalArgs == [verbose |-> FALSE, debug |-> FALSE, profile |-> "default"]

Text(s) == [kind |-> "text", text |-> s]
Json(o) == [kind |-> "json", obj |-> o]
Table(h, r) == [kind |-> "table", header |-> h, rows |-> r]

ErrorObj(msg) == [error |-> msg]

(***************************************************************************)
(* Python dicts are functions; d.get(k, default), d[k] = v                 *)
(***************************************************************************)
EmptyDict == <<>>

\* a dict is falsy when it is empty
IsEmpty(d) == DOMAIN d = {}

Get(d, k, default) == IF k \in DOMAIN d THEN d[k] ELSE default

DictSet(d, k, v) == [x \in DOMAIN d \cup {k} |-> IF x = k THEN v ELSE d[x]]

\* json.dumps of an int and of a str
JsonInt(n) == IntToStr(n)
JsonStr(s) == "\"" \o s \o "\""

(***************************************************************************)
(* main(): the argument preprocessor                                       *)
(***************************************************************************)
\* '--version' in raw_args
HasVersionFirstOnly(raw) == Len(raw) > 0 /\ raw[1] = "--version"
HasVersion(raw) == "--version" \in Range(raw)

\* if i + 1 < len(raw_args)  (i is 1-based here)
ProfileHasValue(raw, k) == k + 1 <= Len(raw)

\* One iteration of the while loop: the new (i, filtered_args, global_args).
ScanTokenShortFlagsOnly(raw, k, filtered, g) ==
    LET arg == raw[k] IN
    IF arg = "-v"
    THEN [i |-> k + 1, filtered |-> filtered, g |-> [g EXCEPT !.verbose = TRUE]]
    ELSE IF arg = "-d"
    THEN [i |-> k + 1, filtered |-> filtered, g |-> [g EXCEPT !.debug = TRUE]]
    ELSE IF arg = "-p"
    THEN IF ProfileHasValue(raw, k)
         THEN [i |-> k + 2, filtered |-> filtered,
               g |-> [g EXCEPT !.profile = raw[k + 1]]]
         ELSE [i |-> k + 1, filtered |-> filtered, g |-> g]
    ELSE [i |-> k + 1, filtered |-> Append(filtered, arg), g |-> g]

ScanTokenNoSkip(raw, k, filtered, g) ==
    LET arg == raw[k] IN
    IF arg \in VerboseFlags
    THEN [i |-> k + 1, filtered |-> filtered, g |-> [g EXCEPT !.verbose = TRUE]]
    ELSE IF arg \in DebugFlags
    THEN [i |-> k + 1, filtered |-> filtered, g |-> [g EXCEPT !.debug = TRUE]]
    ELSE IF arg \in ProfileFlags
    THEN IF ProfileHasValue(raw, k)
         THEN [i |-> k + 1, filtered |-> filtered,
               g |-> [g EXCEPT !.profile = raw[k + 1]]]
         ELSE [i |-> k + 1, filtered |-> filtered, g |-> g]
    ELSE [i |-> k + 1, filtered |-> Append(filtered, arg), g |-> g]

ScanTokenKeepDangling(raw, k, filtered, g) ==
    LET arg == raw[k] IN
    IF arg \in VerboseFlags
    THEN [i |-> k + 1, filtered |-> filtered, g |-> [g EXCEPT !.verbose = TRUE]]
    ELSE IF arg \in DebugFlags
    THEN [i |-> k + 1, filtered |-> filtered, g |-> [g EXCEPT !.debug = TRUE]]
    ELSE IF arg \in ProfileFlags /\ ProfileHasValue(raw, k)
    THEN [i |-> k + 2, filtered |-> filtered,
          g |-> [g EXCEPT !.profile = raw[k + 1]]]
    ELSE [i |-> k + 1, filtered |-> Append(filtered, arg), g |-> g]

ScanToken(raw, k, filtered, g) ==
    LET arg == raw[k] IN
    IF arg \in VerboseFlags
    THEN [i |-> k + 1, filtered |-> filtered, g |-> [g EXCEPT !.verbose = TRUE]]
    ELSE IF arg \in DebugFlags
    THEN [i |-> k + 1, filtered |-> filtered, g |-> [g EXCEPT !.debug = TRUE]]
    ELSE IF arg \in ProfileFlags
    THEN IF ProfileHasValue(raw, k)
         THEN [i |-> k + 2, filtered |-> filtered,
               g |-> [g EXCEPT !.profile = raw[k + 1]]]
         ELSE [i |-> k + 1, filtered |-> filtered, g |-> g]
    ELSE [i |-> k + 1, filtered |-> Append(filtered, arg), g |-> g]

\* The whole loop from index k on: the final filtered_args and global_args.
RECURSIVE ScanFrom(_, _, _, _)
ScanFrom(raw, k, filtered, g) ==
    IF k > Len(raw) THEN [filtered |-> filtered, g |-> g]
    ELSE LET r == ScanToken(raw, k, filtered, g)
         IN ScanFrom(raw, r.i, r.filtered, r.g)

(***************************************************************************)
(* main(): argparse, as declared by the add_parser / add_argument calls    *)
(***************************************************************************)
IsOptionLike(t) ==
    t \in GlobalFlags \cup {"--version", "--skip-repos", "--json-file", "--csv-file"}

NoArgs ==
    [command |-> None, sub |-> None, name |-> None, csv_file |-> None,
     json_file |-> None, skip_repos |-> FALSE, error |-> FALSE,
     profile_loaded |-> FALSE]

ParseError == [NoArgs EXCEPT !.error = TRUE]

RECURSIVE ParseBreakdownOptions(_, _)
ParseBreakdownOptions(rest, acc) ==
    IF rest = <<>> THEN acc
    ELSE IF rest[1] = "--skip-repos"
    THEN ParseBreakdownOptions(Tail(rest), [acc EXCEPT !.skip_repos = TRUE])
    ELSE IF rest[1] \in {"--csv-file", "--json-file"}
    THEN IF Len(rest) >= 2 /\ ~IsOptionLike(rest[2])
         THEN ParseBreakdownOptions(
                  Tail(Tail(rest)),
                  IF rest[1] = "--csv-file"
                  THEN [acc EXCEPT !.csv_file = rest[2]]
                  ELSE [acc EXCEPT !.json_file = rest[2]])
         ELSE ParseError
    ELSE ParseError

ParseArgs(f) ==
    IF Len(f) = 0 THEN NoArgs
    ELSE IF f[1] = "setup"
    THEN IF Len(f) = 1 THEN [NoArgs EXCEPT !.command = "setup"]
         ELSE IF Len(f) = 2 /\ ~IsOptionLike(f[2])
         THEN [NoArgs EXCEPT !.command = "setup", !.name = f[2]]
         ELSE ParseError
    ELSE IF f[1] = "profile"
    THEN IF Len(f) = 1 THEN [NoArgs EXCEPT !.command = "profile"]
         ELSE IF f[2] = "list" /\ Len(f) = 2
         THEN [NoArgs EXCEPT !.command = "profile", !.sub = "list"]
         ELSE IF f[2] = "show" /\ Len(f) = 2
         THEN [NoArgs EXCEPT !.command = "profile", !.sub = "show"]
         ELSE IF f[2] \in {"show", "delete", "set-default"}
                 /\ Len(f) = 3 /\ ~IsOptionLike(f[3])
         THEN [NoArgs EXCEPT !.command = "profile", !.sub = f[2], !.name = f[3]]
         ELSE ParseError
    ELSE IF f[1] = "license"
    THEN IF Len(f) = 1 THEN [NoArgs EXCEPT !.command = "license"]
         ELSE IF f[2] \in {"show", "count"} /\ Len(f) = 2
         THEN [NoArgs EXCEPT !.command = "license", !.sub = f[2]]
         ELSE IF f[2] = "breakdown"
         THEN ParseBreakdownOptions(
                  SubSeq(f, 3, Len(f)),
                  [NoArgs EXCEPT !.command = "license", !.sub = "breakdown"])
         ELSE ParseError
    ELSE ParseError

(***************************************************************************)
(* Results of the platform client's queries: a value, or an exception.     *)
(* A function returns [out, calls, exc, exports]: the lines it printed, the *)
(* queries it issued in order, the exception it raised (None: it returned) *)
(* and the structures it handed to the file exporters.                     *)
(***************************************************************************)
Ok(v) == [ok |-> TRUE, val |-> v]
Raises(dummy) == [ok |-> FALSE, val |-> dummy]

Debug(label) == [kind |-> "text", text |-> "DEBUG: " \o label]

Outcome(out, cs, e) == [out |-> out, calls |-> cs, exc |-> e, exports |-> <<>>]

\* What str(e) is for an exception raised by the platform client.
ClientError == "client error"

(***************************************************************************)
(* license_show                                                            *)
(***************************************************************************)
ShowFields ==
    << <<"num_repositories", "Image Repositories">>,
       <<"num_microenforcers", "Micro-enforcers">>,
       <<"num_vm_enforcers", "VM Enforcers">>,
       <<"num_functions", "Functions">>,
       <<"num_code_repositories", "Code Repositories">>,
       <<"num_advanced_functions", "Advanced Functions">>,
       <<"num_protected_kube_nodes", "Protected K8s Nodes">>,
       <<"vshield", "vShield">>,
       <<"malware_protection", "Malware Protection">> >>

\* The table cell of one field of active_production (verbose mode).
ShowDisplayValue(field, value) ==
    IF field \in {"vshield", "malware_protection"}
    THEN (IF value # 0 THEN "Yes" ELSE "No")
    ELSE (IF value = -1 THEN "Unlimited" ELSE FmtComma(value))

\* The JSON value of one field of active_production (structured mode).
ShowJsonValueAllFields(key, value) ==
    IF value = -1 THEN JsonStr("unlimited") ELSE JsonInt(value)

ShowJsonValue(key, value) ==
    IF value = -1 /\ key \notin {"dta_repos"}
    THEN JsonStr("unlimited")
    ELSE JsonInt(value)

ShowTable(active_production, num_active) ==
    LET rows == [k \in 1..Len(ShowFields) |->
                    << ShowFields[k][2],
                       ShowDisplayValue(ShowFields[k][1],
                                        Get(active_production, ShowFields[k][1], 0)) >>]
        withActive == Append(rows, <<"Active Licenses", IntToStr(num_active)>>)
        withDta ==
            IF "dta_repos" \in DOMAIN active_production
            THEN Append(withActive,
                        <<"DTA Repositories", FmtComma(active_production["dta_repos"])>>)
            ELSE withActive
    IN Table(<<"Product", "Total Limit">>, withDta)

ShowTotals(active_production, num_active) ==
    LET copied == [k \in DOMAIN active_production |->
                       ShowJsonValue(k, active_production[k])]
    IN DictSet(copied, "num_active", JsonInt(num_active))

\* all_licenses: the result of get_all_licenses (None and {} are both falsy)
LicenseShow(all_licenses, verbose, debug) ==
    LET cs == <<"get_all_licenses">> IN
    IF ~all_licenses.ok THEN Outcome(<<>>, cs, ClientError)
    ELSE IF IsEmpty(all_licenses.val) THEN Outcome(<<>>, cs, None)
    ELSE
      LET data == all_licenses.val
          active_production ==
              Get(Get(data, "resources", EmptyDict), "active_production", EmptyDict)
          num_active == Get(Get(data, "details", EmptyDict), "num_active", 0)
      IN IF verbose
         THEN IF ~IsEmpty(active_production)
              THEN Outcome(<<ShowTable(active_production, num_active)>>, cs, None)
              ELSE Outcome(<<Text("No active production license totals found")>>,
                           cs, None)
         ELSE Outcome(<<Json(ShowTotals(active_production, num_active))>>, cs, None)

(***************************************************************************)
(* license_count                                                           *)
(***************************************************************************)
EnforcerKeys ==
    <<"agent", "kube_enforcer", "host_enforcer", "micro_enforcer",
      "nano_enforcer", "pod_enforcer">>

\* The fallback of the except branch: every enforcer type at 0.
ZeroEnforcers == [k \in Range(EnforcerKeys) |-> 0]

\* usage key -> the key of total_enforcers it is read from
UsageEnforcerKey ==
    [enforcers |-> "agent", kube_enforcers |-> "kube_enforcer",
     host_enforcers |-> "host_enforcer", micro_enforcers |-> "micro_enforcer",
     nano_enforcers |-> "nano_enforcer", pod_enforcers |-> "pod_enforcer",
     vm_enforcers |-> "host_enforcer", protected_kube_nodes |-> "kube_enforcer"]

\* The enforcer keys the usage dict reads that total_enforcers lacks, in the
\* order the dict literal evaluates them; the first one is the KeyError.
MissingEnforcerKeys(total_enforcers) ==
    SelectSeq(EnforcerKeys, LAMBDA k : k \notin DOMAIN total_enforcers)

CountUsage(total_repos, total_code_repos, total_functions, total_enforcers) ==
    [k \in {"repositories", "code_repositories", "functions"}
           \cup DOMAIN UsageEnforcerKey |->
        CASE k = "repositories" -> total_repos
          [] k = "code_repositories" -> total_code_repos
          [] k = "functions" -> total_functions
          [] OTHER -> total_enforcers[UsageEnforcerKey[k]]]

\* (usage key, limit key, display name); a None limit key is "unlimited"
CountResources ==
    << <<"repositories", "num_repositories", "Image Repositories">>,
       <<"code_repositories", "num_code_repositories", "Code Repositories">>,
       <<"enforcers", "num_protected_kube_nodes", "Aqua Enforcers">>,
       <<"kube_enforcers", None, "Kube Enforcers">>,
       <<"micro_enforcers", "num_microenforcers", "Micro Enforcers">>,
       <<"vm_enforcers", "num_vm_enforcers", "VM Enforcers">>,
       <<"functions", "num_functions", "Functions">> >>

\* round(x, 1) of used / limit * 100 in tenths of a percent, limit > 0, as
\* f"{...:.1f}" rounds: to nearest, an exact half to the even digit.
PctTenthsTruncated(used, limit) == (used * 1000) \div limit

PctTenths(used, limit) ==
    LET q == (used * 1000) \div limit
        r == (used * 1000) % limit
    IN IF 2 * r > limit \/ (2 * r = limit /\ q % 2 = 1) THEN q + 1 ELSE q

\* f"{(used / limit * 100):.1f}%"
FmtPct(used, limit) ==
    LET t == PctTenths(used, limit)
    IN NatToStr(t \div 10) \o "." \o Digit(t % 10) \o "%"

CountLimit(licenses, limit_key) ==
    IF limit_key = None THEN -1 ELSE Get(licenses, limit_key, 0)

CountLimitStr(limit) == IF limit = -1 THEN "Unlimited" ELSE FmtComma(limit)

CountUtilPct(used, limit) ==
    IF limit = -1 THEN "-"
    ELSE IF limit > 0 THEN FmtPct(used, limit) ELSE "-"

CountRow(licenses, usage, res) ==
    LET limit == CountLimit(licenses, res[2])
        used  == Get(usage, res[1], 0)
    IN << res[3], CountLimitStr(limit), FmtComma(used), CountUtilPct(used, limit) >>

CountTable(licenses, usage) ==
    Table(<<"Resource", "Limit", "Used", "Utilization %">>,
          [k \in 1..Len(CountResources) |->
              CountRow(licenses, usage, CountResources[k])])

\* json.dumps(utilization): the limits are dumped as get_licences gave them
CountJson(licenses, usage) ==
    [limits |-> [k \in DOMAIN licenses |-> JsonInt(licenses[k])],
     usage  |-> [k \in DOMAIN usage |-> JsonInt(usage[k])]]

\* One guarded count query: the count (0 when it raised) and the debug line.
CountOrZero(q) == IF q.ok THEN q.val ELSE 0

CountDebug(q, okLabel, failLabel) ==
    IF q.ok THEN Debug(okLabel \o IntToStr(q.val))
    ELSE Debug(failLabel \o ClientError)

\* total_enforcers after the try/except around get_enforcer_count
TotalEnforcers(enf) == IF enf.ok THEN enf.val ELSE ZeroEnforcers

CountDebugLines(repo, code, fn, enf) ==
    << Debug("Getting total counts (using Global scope)"),
       CountDebug(repo, "Total repositories: ", "Failed to get repository count: "),
       CountDebug(code, "Total code repositories: ",
                  "Code repository counting not available: "),
       CountDebug(fn, "Total functions: ", "Functions counting not available: "),
       IF enf.ok THEN Debug("Total enforcer counts")
       ELSE Debug("Failed to get enforcer counts: " \o ClientError) >>

CountCalls ==
    <<"get_licences", "get_repo_count", "get_code_repo_count",
      "get_function_count", "get_enforcer_count">>

CountReport(licenses, usage, verbose) ==
    IF verbose
    THEN << CountTable(licenses, usage),
            Text("\nActive Licenses: " \o IntToStr(Get(licenses, "num_active", 0))) >>
         \o (IF \E k \in {"enforcers", "micro_enforcers", "vm_enforcers"} : usage[k] = 0
             THEN <<Text("\nNote: For detailed enforcer counts, use 'license breakdown' command")>>
             ELSE <<>>)
    ELSE << Json(CountJson(licenses, usage)) >>

\* lic: the result of get_licences; repo, code, fn, enf: the results of
\* get_repo_count, get_code_repo_count, get_function_count, get_enforcer_count
LicenseCount(lic, repo, code, fn, enf, verbose, debug) ==
    IF ~lic.ok THEN Outcome(<<>>, <<"get_licences">>, ClientError)
    ELSE IF IsEmpty(lic.val)
    THEN Outcome(IF verbose THEN <<Text("No license information found")>>
                 ELSE <<Json(ErrorObj("No license information found"))>>,
                 <<"get_licences">>, None)
    ELSE
      LET dbg == IF debug THEN CountDebugLines(repo, code, fn, enf) ELSE <<>>
          total_enforcers == TotalEnforcers(enf)
          missing == MissingEnforcerKeys(total_enforcers)
      IN IF missing # <<>>
         THEN Outcome(dbg, CountCalls, "'" \o missing[1] \o "'")
         ELSE LET usage == CountUsage(CountOrZero(repo), CountOrZero(code),
                                      CountOrZero(fn), total_enforcers)
              IN Outcome(dbg \o CountReport(lic.val, usage, verbose), CountCalls, None)

(***************************************************************************)
(* license_breakdown                                                       *)
(***************************************************************************)
\* {**a, **b}: the keys of b win
Merge(a, b) ==
    [x \in DOMAIN a \cup DOMAIN b |-> IF x \in DOMAIN b THEN b[x] ELSE a[x]]

\* {scope: 0 for scope in scopes_list}
ZeroByScope(scopes_list) == [sc \in Range(scopes_list) |-> 0]

\* for scope in scopes_result: scopes_list.append(scope["name"])
ScopesList(scopes_result) ==
    [k \in 1..Len(scopes_result) |-> scopes_result[k]["name"]]

BreakdownRow(key, value, code_repo_count_by_scope, enforcers) ==
    Merge([f \in {"scope name", "repos", "code_repos"} |->
              CASE f = "scope name" -> key
                [] f = "repos" -> value
                [] OTHER -> Get(code_repo_count_by_scope, key, 0)],
          enforcers)

\* The join: for key, value in repo_count_by_scope.items():
\*               if key in enforcer_count_by_scope: ...
BreakdownDataOuterJoin(repo_count_by_scope, enforcer_count_by_scope, code_repo_count_by_scope) ==
    [key \in DOMAIN repo_count_by_scope |->
        BreakdownRow(key, repo_count_by_scope[key], code_repo_count_by_scope,
                     Get(enforcer_count_by_scope, key, ZeroEnforcers))]

BreakdownData(repo_count_by_scope, enforcer_count_by_scope, code_repo_count_by_scope) ==
    [key \in DOMAIN repo_count_by_scope \cap DOMAIN enforcer_count_by_scope |->
        BreakdownRow(key, repo_count_by_scope[key], code_repo_count_by_scope,
                     enforcer_count_by_scope[key])]

\* The table reads these keys of a row with details[...]; a missing one is
\* a KeyError.  The rows are read in the order of repo_count_by_scope.
BreakdownTableKeys ==
    <<"scope name", "repos", "agent", "kube_enforcer", "host_enforcer",
      "micro_enforcer", "nano_enforcer", "pod_enforcer">>

BreakdownMissingKeys(details) ==
    SelectSeq(BreakdownTableKeys, LAMBDA k : k \notin DOMAIN details)

BreakdownTableRow(details) ==
    << details["scope name"], details["repos"], Get(details, "code_repos", 0),
       details["agent"], details["kube_enforcer"], details["host_enforcer"],
       details["micro_enforcer"], details["nano_enforcer"], details["pod_enforcer"] >>

BreakdownTable(breakdown_data) ==
    Table(<<"Scope", "Images", "Code", "Agents", "Kube", "Host", "Micro", "Nano", "Pod">>,
          [sc \in DOMAIN breakdown_data |-> BreakdownTableRow(breakdown_data[sc])])

\* a serialisation that leaves the scope name out of each entry
BreakdownJsonCountsOnly(breakdown_data) ==
    [sc \in DOMAIN breakdown_data |->
        [f \in DOMAIN breakdown_data[sc] \ {"scope name"} |->
            JsonInt(breakdown_data[sc][f])]]

\* json.dumps(breakdown_data)
BreakdownJson(breakdown_data) ==
    [sc \in DOMAIN breakdown_data |->
        [f \in DOMAIN breakdown_data[sc] |->
            IF f = "scope name" THEN JsonStr(breakdown_data[sc][f])
            ELSE JsonInt(breakdown_data[sc][f])]]

OutcomeX(out, cs, e, ex) ==
    [out |-> out, calls |-> cs, exc |-> e, exports |-> ex]

If(cond, s) == IF cond THEN s ELSE <<>>

\* The last part of license_breakdown: the exports and the rendering of an
\* already built breakdown_data (out and cs: what was printed and called so far).
BreakdownEmit(x, breakdown_data, out, cs) ==
    LET csvCalls == cs \o If(x.csv_file # None, <<"generate_csv_for_license_breakdown">>)
        csvExp   == If(x.csv_file # None,
                       <<[kind |-> "csv", file |-> x.csv_file, data |-> breakdown_data]>>)
        csvOut   == out \o If(x.csv_file # None /\ x.verbose,
                              <<Text("License breakdown exported to CSV: " \o x.csv_file)>>)
        jsonCalls == csvCalls \o If(x.json_file # None, <<"write_json_to_file">>)
        jsonExp   == csvExp \o If(x.json_file # None,
                       <<[kind |-> "json", file |-> x.json_file, data |-> breakdown_data]>>)
        jsonOut   == csvOut \o If(x.json_file # None /\ x.verbose,
                              <<Text("License breakdown exported to JSON: " \o x.json_file)>>)
        badRows   == {sc \in DOMAIN breakdown_data :
                         BreakdownMissingKeys(breakdown_data[sc]) # <<>>}
    IN IF x.csv_file # None /\ ~x.csv_ok
       THEN OutcomeX(out, csvCalls, ClientError, <<>>)
       ELSE IF x.json_file # None /\ ~x.json_ok
       THEN OutcomeX(csvOut, jsonCalls, ClientError, csvExp)
       ELSE IF ~x.verbose
       THEN OutcomeX(jsonOut \o <<Json(BreakdownJson(breakdown_data))>>,
                     jsonCalls, None, jsonExp)
       ELSE IF badRows # {}
       THEN OutcomeX(jsonOut, jsonCalls,
                     "'" \o BreakdownMissingKeys(
                                breakdown_data[CHOOSE sc \in badRows : TRUE])[1] \o "'",
                     jsonExp)
       ELSE OutcomeX(jsonOut \o <<BreakdownTable(breakdown_data)>>,
                     jsonCalls, None, jsonExp)

\* repo_count_by_scope: zeros for the known scopes when skipping
BreakdownRepoSource(x, scopes_list) ==
    IF x.skip_repos THEN ZeroByScope(scopes_list) ELSE x.repo.val

\* code_repo_count_by_scope: zeros when skipping, {} when the query is missing
BreakdownCodeSourceSkipIgnored(x, scopes_list) ==
    IF x.code_supported THEN x.code.val ELSE EmptyDict

BreakdownCodeSource(x, scopes_list) ==
    IF x.skip_repos THEN ZeroByScope(scopes_list)
    ELSE IF x.code_supported THEN x.code.val
    ELSE EmptyDict

\* x: the arguments (verbose, debug, csv_file, json_file, skip_repos), whether
\* get_code_repo_count_by_scope exists (code_supported), and the results of the
\* queries (lic, dta, dta_util, scopes, repo, enf, code) and of the exporters.
LicenseBreakdown(x) ==
    LET c1 == <<"get_licences">>
        o1 == If(x.debug, <<Debug("License info")>>)
        c2 == c1 \o <<"api_get_dta_license">>
        o2 == o1 \o If(x.debug, <<Debug("DTA License")>>)
        enabled == x.dta.ok /\ x.dta.val["enabled"]
        c3 == c2 \o If(enabled, <<"api_post_dta_license_utilization">>)
        o3 == o2 \o If(enabled /\ x.debug, <<Debug("DTA License Utilization")>>)
        c4 == c3 \o <<"get_app_scopes">>
        o4 == o3 \o If(x.debug, <<Debug("Scopes")>>)
        scopes_list == ScopesList(x.scopes.val)
        c5 == c4 \o If(~x.skip_repos, <<"get_repo_count_by_scope">>)
        o5 == o4 \o (IF x.skip_repos
                     THEN If(x.verbose, <<Text("Skipping repository counting...")>>)
                          \o If(x.debug, <<Debug("Repo count by scope: Skipped")>>)
                     ELSE If(x.debug, <<Debug("Repo count by scope")>>))
        repo_count_by_scope == BreakdownRepoSource(x, scopes_list)
        c6 == c5 \o <<"get_enforcer_count_by_scope">>
        o6 == o5 \o If(x.debug, <<Debug("Enforcer count by scope")>>)
        callCode == ~x.skip_repos /\ x.code_supported
        c7 == c6 \o If(callCode, <<"get_code_repo_count_by_scope">>)
        o7 == o6 \o If(x.debug,
                       <<IF x.skip_repos THEN Debug("Code repo count by scope: Skipped")
                         ELSE IF x.code_supported THEN Debug("Code repo count by scope")
                         ELSE Debug("Code repo count by scope: Not available in this version")>>)
        code_repo_count_by_scope == BreakdownCodeSource(x, scopes_list)
    IN IF ~x.lic.ok THEN OutcomeX(<<>>, c1, ClientError, <<>>)
       ELSE IF ~x.dta.ok THEN OutcomeX(o1, c2, ClientError, <<>>)
       ELSE IF enabled /\ ~x.dta_util.ok THEN OutcomeX(o2, c3, ClientError, <<>>)
       ELSE IF ~x.scopes.ok THEN OutcomeX(o3, c4, ClientError, <<>>)
       ELSE IF ~x.skip_repos /\ ~x.repo.ok THEN OutcomeX(o4, c5, ClientError, <<>>)
       ELSE IF ~x.enf.ok THEN OutcomeX(o5, c6, ClientError, <<>>)
       ELSE IF callCode /\ ~x.code.ok THEN OutcomeX(o6, c7, ClientError, <<>>)
       ELSE BreakdownEmit(x,
                BreakdownData(repo_count_by_scope, x.enf.val, code_repo_count_by_scope),
                o7, c7)

(***************************************************************************)
(* main(): the steps                                                       *)
(***************************************************************************)
NoInput == [none |-> TRUE]

Exit(code) == pc' = "exit" /\ exit_code' = code

\* if '--version' in raw_args: print, sys.exit(0)
CheckVersion ==
    /\ pc = "start"
    /\ IF HasVersion(raw_args)
       THEN /\ stdout' = Append(stdout, Text("aqua_license_util " \o __version__))
            /\ Exit(0)
       ELSE /\ pc' = "scan"
            /\ UNCHANGED <<stdout, exit_code>>
    /\ UNCHANGED <<raw_args, i, filtered_args, global_args, args, calls, inp,
                   exc, exports>>

\* one iteration of: while i < len(raw_args)
ScanStep ==
    /\ pc = "scan"
    /\ i <= Len(raw_args)
    /\ LET r == ScanToken(raw_args, i, filtered_args, global_args)
       IN /\ i' = r.i
          /\ filtered_args' = r.filtered
          /\ global_args' = r.g
    /\ UNCHANGED <<raw_args, pc, args, stdout, exit_code, calls, inp, exc, exports>>

\* the loop ends; parser.parse_args(filtered_args), then the global args are
\* added to the namespace.  An argparse error exits with status 2.
ParseStep ==
    /\ pc = "scan"
    /\ i > Len(raw_args)
    /\ args' = ParseArgs(filtered_args)
    /\ IF args'.error
       THEN Exit(2)
       ELSE pc' = "dispatch" /\ UNCHANGED exit_code
    /\ UNCHANGED <<raw_args, i, filtered_args, global_args, stdout, calls, inp,
                   exc, exports>>

\* if args.command is None: parser.print_help(); sys.exit(1)
NoCommand ==
    /\ pc = "dispatch"
    /\ args.command = None
    /\ stdout' = Append(stdout, Text("usage: aqua_license_util"))
    /\ Exit(1)
    /\ UNCHANGED <<raw_args, i, filtered_args, global_args, args, calls, inp,
                   exc, exports>>

SetupProfileName ==
    IF args.name # None THEN args.name
    ELSE IF global_args.profile # "default" THEN global_args.profile
    ELSE None

\* setup: success = interactive_setup(profile_name); sys.exit(0 if success else 1)
SetupCommand ==
    /\ pc = "dispatch"
    /\ args.command = "setup"
    /\ \E success \in BOOLEAN :
          /\ inp' = [profile_name |-> SetupProfileName, success |-> success]
          /\ Exit(IF success THEN 0 ELSE 1)
    /\ calls' = Append(calls, "interactive_setup")
    /\ UNCHANGED <<raw_args, i, filtered_args, global_args, args, stdout,
                   exc, exports>>

ProfileReply(what) ==
    IF global_args.verbose THEN Text(what) ELSE Json([response |-> what])

\* profile list | show | delete | set-default | (no subcommand)
ProfileCommand ==
    /\ pc = "dispatch"
    /\ args.command = "profile"
    /\ \E success \in BOOLEAN :
         /\ inp' = [success |-> success]
         /\ CASE args.sub = "list" ->
                   /\ calls' = calls \o <<"ConfigManager",
                                 IF global_args.verbose THEN "list_profiles"
                                 ELSE "get_all_profiles_info">>
                   /\ stdout' = Append(stdout, ProfileReply("profiles"))
                   /\ Exit(0)
              [] args.sub = "show" ->
                   /\ calls' = calls \o <<"ConfigManager">>
                                 \o If(args.name = None, <<"ConfigManager">>)
                                 \o <<"get_profile_info">>
                   /\ stdout' = Append(stdout,
                                   ProfileReply(IF success THEN "profile info"
                                                ELSE "profile not found"))
                   /\ Exit(IF success THEN 0 ELSE 1)
              [] args.sub = "delete" ->
                   /\ calls' = calls \o <<"ConfigManager", "delete_profile_with_result">>
                   /\ stdout' = Append(stdout, ProfileReply("delete"))
                   /\ Exit(IF success THEN 0 ELSE 1)
              [] args.sub = "set-default" ->
                   /\ calls' = calls \o <<"ConfigManager", "set_default_profile_with_result">>
                   /\ stdout' = Append(stdout, ProfileReply("set-default"))
                   /\ Exit(IF success THEN 0 ELSE 1)
              [] OTHER ->
                   /\ calls' = calls \o <<"ConfigManager">>
                   /\ stdout' = Append(stdout, Text("Error: No profile subcommand specified"))
                   /\ Exit(1)
    /\ UNCHANGED <<raw_args, i, filtered_args, global_args, args, exc, exports>>

\* license without a subcommand, were the sys.exit(1) left out
LicenseNoSubcommandFallsThrough ==
    /\ pc = "dispatch"
    /\ args.command = "license"
    /\ args.sub = None
    /\ stdout' = Append(stdout, Text("Error: No license subcommand specified"))
    /\ pc' = "authenticate"
    /\ UNCHANGED <<raw_args, i, filtered_args, global_args, args, calls, inp,
                   exc, exports, exit_code>>

\* license without a subcommand: print the error, sys.exit(1)
LicenseNoSubcommand ==
    /\ pc = "dispatch"
    /\ args.command = "license"
    /\ args.sub = None
    /\ stdout' = Append(stdout, Text("Error: No license subcommand specified"))
    /\ Exit(1)
    /\ UNCHANGED <<raw_args, i, filtered_args, global_args, args, calls, inp,
                   exc, exports>>

NoCredentialsReport ==
    IF global_args.verbose
    THEN Text("No credentials found.")
    ELSE Json(ErrorObj("No credentials found. Run 'setup' command or set environment variables."))

\* load_profile_credentials(args.profile), then os.environ.get('AQUA_USER')
LoadCredentials ==
    /\ pc = "dispatch"
    /\ args.command = "license"
    /\ args.sub # None
    /\ calls' = Append(calls, "load_profile_credentials")
    /\ \E profile_loaded \in BOOLEAN, has_creds \in BOOLEAN :
          /\ args' = [args EXCEPT !.profile_loaded = profile_loaded]
          /\ IF ~has_creds
             THEN /\ stdout' = Append(stdout, NoCredentialsReport)
                  /\ Exit(1)
             ELSE /\ stdout' = stdout \o If(global_args.debug,
                                   <<Debug("Aqua License Utility version: " \o __version__)>>)
                  /\ pc' = "authenticate"
                  /\ UNCHANGED exit_code
    /\ UNCHANGED <<raw_args, i, filtered_args, global_args, inp, exc, exports>>

\* What a call of the platform client may end with: a result, an Exception,
\* or a KeyboardInterrupt (a BaseException: "except Exception" lets it pass).
AuthOutcomes == {"token", "Exception", "KeyboardInterrupt"}

\* An exception that no handler of main() catches leaves main(): the run ends
\* without reaching a sys.exit.
Uncaught == pc' = "interrupted" /\ UNCHANGED exit_code

\* token = authenticate(verbose=args.debug), inside try / except Exception
Authenticate ==
    /\ pc = "authenticate"
    /\ calls' = Append(calls, "authenticate")
    /\ \E auth \in AuthOutcomes :
          LET before == If(args.profile_loaded /\ global_args.verbose,
                           <<Text("Using profile: " \o global_args.profile)>>)
                        \o If(global_args.verbose,
                              <<Text("Authenticating with Aqua Security platform...")>>)
          IN CASE auth = "token" ->
                  /\ stdout' = stdout \o before
                                 \o If(global_args.verbose,
                                       <<Text("Authentication successful!\n")>>)
                  /\ pc' = "endpoint"
                  /\ UNCHANGED exit_code
               [] auth = "Exception" ->
                  /\ stdout' = stdout \o before
                        \o <<IF global_args.verbose
                             THEN Text("Authentication failed: " \o ClientError)
                             ELSE Json(ErrorObj("Authentication failed: " \o ClientError))>>
                  /\ Exit(1)
               [] OTHER ->
                  /\ stdout' = stdout \o before
                  /\ Uncaught
    /\ UNCHANGED <<raw_args, i, filtered_args, global_args, args, inp, exc, exports>>

\* csp_endpoint = os.environ.get('CSP_ENDPOINT')
CheckEndpoint ==
    /\ pc = "endpoint"
    /\ \E csp_endpoint \in BOOLEAN :
          IF ~csp_endpoint
          THEN /\ stdout' = Append(stdout,
                     IF global_args.verbose
                     THEN Text("Error: CSP_ENDPOINT environment variable not set")
                     ELSE Json(ErrorObj("CSP_ENDPOINT environment variable not set")))
               /\ Exit(1)
          ELSE /\ stdout' = stdout
               /\ pc' = "execute"
               /\ UNCHANGED exit_code
    /\ UNCHANGED <<raw_args, i, filtered_args, global_args, args, calls, inp,
                   exc, exports>>

(***************************************************************************)
(* The inputs: what the platform may answer                                *)
(***************************************************************************)
PartialDicts(keys, vals) == UNION {[D -> vals] : D \in SUBSET keys}

Single(k, v) == [x \in {k} |-> v]

\* --- license_show ---
ShowKeys == {"num_repositories", "vshield", "dta_repos", "num_active"}
ShowVals == {-1, 0, 1500}

AllLicensesDicts ==
    {Merge(res, det) :
        res \in {EmptyDict} \cup
                {Single("resources", Single("active_production", ap)) :
                     ap \in PartialDicts(ShowKeys, ShowVals)},
        det \in {EmptyDict} \cup
                {Single("details", Single("num_active", n)) : n \in {0, 2}}}

ShowInputs ==
    [all_licenses : {Raises(EmptyDict)} \cup {Ok(d) : d \in AllLicensesDicts},
     verbose : BOOLEAN, debug : BOOLEAN]

\* --- license_count ---
FullEnforcers(n) ==
    [k \in Range(EnforcerKeys) |->
        CASE k = "agent" -> n [] k = "kube_enforcer" -> n + 1
          [] k = "host_enforcer" -> n + 2 [] k = "micro_enforcer" -> 0
          [] OTHER -> 1500]

Without(d, k) == [x \in DOMAIN d \ {k} |-> d[x]]

EnforcerResults ==
    {Raises(EmptyDict), Ok(FullEnforcers(0)), Ok(FullEnforcers(50))}
    \cup {Ok(Without(FullEnforcers(50), k)) : k \in Range(EnforcerKeys)}

LimitGroups ==
    << {"num_repositories", "num_code_repositories"},
       {"num_protected_kube_nodes", "num_microenforcers", "num_vm_enforcers"},
       {"num_functions", "num_active"} >>

\* <<>>: the keys of the group are absent from the record
LimitVals == {<<>>, <<-1>>, <<0>>, <<200>>}

\* the limits record in which the keys of group g carry v[g], when present
LimitsOf(v) ==
    [k \in UNION {IF v[g] = <<>> THEN {} ELSE LimitGroups[g] : g \in 1..3} |->
        v[CHOOSE g \in 1..3 : k \in LimitGroups[g]][1]]

SampleLimits == {LimitsOf(v) : v \in [1..3 -> LimitVals]}

CountSamples ==
    [lic : {Raises(EmptyDict)} \cup {Ok(d) : d \in SampleLimits},
     repo : {Raises(0), Ok(0), Ok(50)},
     code : {Raises(0), Ok(1500)},
     fn : {Raises(0), Ok(3)},
     enf : EnforcerResults,
     verbose : BOOLEAN, debug : BOOLEAN]

\* every (used, limit) pair of the repository row up to the bounds
CountRange ==
    [lic : {Ok(Single("num_repositories", l)) : l \in -1..MaxLimit},
     repo : {Ok(u) : u \in 0..MaxUsed},
     code : {Ok(0)}, fn : {Ok(0)}, enf : {Ok(FullEnforcers(1))},
     verbose : {TRUE}, debug : {FALSE}]

CountInputs == CountSamples \cup CountRange

\* --- license_breakdown ---
Scopes == <<"Global", "dev">>

ScopeLists == {<<>>, <<"Global">>, <<"dev">>, <<"Global", "dev">>}

ScopesResult(names) == [k \in 1..Len(names) |-> Single("name", names[k])]

RepoCountOf(sc) == IF sc = "Global" THEN 7 ELSE 1500
CodeCountOf(sc) == IF sc = "Global" THEN 3 ELSE 4

ByScope(count(_)) ==
    {[sc \in D |-> count(sc)] : D \in SUBSET Range(Scopes)}

\* per scope: no entry, every enforcer type, or every type but pod_enforcer
EnforcersByScope ==
    UNION {[D -> {FullEnforcers(2), Without(FullEnforcers(5), "pod_enforcer")}] :
              D \in SUBSET Range(Scopes)}

DtaDisabled == Ok([enabled |-> FALSE, token |-> "", url |-> ""])
DtaEnabled  == Ok([enabled |-> TRUE, token |-> "t", url |-> "u"])

FullByScope(count(_)) == [sc \in Range(Scopes) |-> count(sc)]

\* every shape of the three per-scope sources, nothing failing
BreakdownShapes ==
    [lic : {Ok(EmptyDict)}, dta : {DtaDisabled}, dta_util : {Ok(EmptyDict)},
     scopes : {Ok(ScopesResult(l)) : l \in ScopeLists},
     repo : {Ok(d) : d \in ByScope(RepoCountOf)},
     enf : {Ok(d) : d \in EnforcersByScope},
     code_supported : BOOLEAN,
     code : {Ok(d) : d \in ByScope(CodeCountOf)},
     skip_repos : BOOLEAN, csv_file : {None}, json_file : {None, "out.json"},
     csv_ok : {TRUE}, json_ok : {TRUE},
     verbose : BOOLEAN, debug : {FALSE}]

\* every combination of failing queries and of the options, on full sources
BreakdownFaults ==
    [lic : {Ok(EmptyDict), Raises(EmptyDict)},
     dta : {DtaDisabled, DtaEnabled, Raises([enabled |-> FALSE, token |-> "", url |-> ""])},
     dta_util : {Ok(EmptyDict), Raises(EmptyDict)},
     scopes : {Ok(ScopesResult(Scopes)), Raises(<<>>)},
     repo : {Ok(FullByScope(RepoCountOf)), Raises(EmptyDict)},
     enf : {Ok([sc \in Range(Scopes) |-> FullEnforcers(2)]), Raises(EmptyDict)},
     code_supported : BOOLEAN,
     code : {Ok(FullByScope(CodeCountOf)), Raises(EmptyDict)},
     skip_repos : BOOLEAN, csv_file : {None, "out.csv"}, json_file : {None, "out.json"},
     csv_ok : BOOLEAN, json_ok : BOOLEAN,
     verbose : BOOLEAN, debug : BOOLEAN]

BreakdownInputs == BreakdownShapes \cup BreakdownFaults

\* --- what main() is given when it runs a command ---
SampleAllLicenses ==
    Merge(Single("resources",
              Single("active_production", [num_repositories |-> -1, dta_repos |-> -1])),
          Single("details", Single("num_active", 2)))

MainShowInputs ==
    [all_licenses : {Raises(EmptyDict), Ok(EmptyDict), Ok(SampleAllLicenses),
                     Ok(Single("details", Single("num_active", 2)))}]

MainCountInputs ==
    [lic : {Ok(EmptyDict), Ok(LimitsOf(<< <<200>>, <<-1>>, <<0>> >>))},
     repo : {Raises(0), Ok(50)}, code : {Ok(1500)}, fn : {Ok(3)},
     enf : {Ok(FullEnforcers(50)), Ok(Without(FullEnforcers(50), "agent"))}]

MainBreakdownInputs ==
    [lic : {Ok(EmptyDict)},
     dta : {DtaDisabled, DtaEnabled, Raises([enabled |-> FALSE, token |-> "", url |-> ""])},
     dta_util : {Ok(EmptyDict), Raises(EmptyDict)},
     scopes : {Ok(ScopesResult(Scopes))},
     repo : {Ok(FullByScope(RepoCountOf)), Raises(EmptyDict)},
     enf : {Ok([sc \in Range(Scopes) |-> FullEnforcers(2)])},
     code_supported : {TRUE},
     code : {Ok(FullByScope(CodeCountOf)), Raises(EmptyDict)},
     csv_ok : {TRUE}, json_ok : BOOLEAN]

(***************************************************************************)
(* main(): running the command, inside try / except Exception              *)
(***************************************************************************)
EndpointDebug == If(global_args.debug, <<Debug("Using CSP endpoint for license API")>>)

\* except Exception as e: print the error, sys.exit(1); otherwise main()
\* returns and the process exits with status 0
Finish(r) ==
    /\ calls' = calls \o r.calls
    /\ exports' = r.exports
    /\ IF r.exc = None
       THEN /\ stdout' = stdout \o EndpointDebug \o r.out
            /\ Exit(0)
       ELSE /\ stdout' = stdout \o EndpointDebug \o r.out
                  \o <<IF global_args.verbose THEN Text("Error: " \o r.exc)
                       ELSE Json(ErrorObj(r.exc))>>
            /\ Exit(1)

ExecuteShow ==
    /\ pc = "execute"
    /\ args.sub = "show"
    /\ \E x \in MainShowInputs :
          /\ inp' = x
          /\ Finish(LicenseShow(x.all_licenses, global_args.verbose, global_args.debug))
    /\ UNCHANGED <<raw_args, i, filtered_args, global_args, args, exc>>

ExecuteCount ==
    /\ pc = "execute"
    /\ args.sub = "count"
    /\ \E x \in MainCountInputs :
          /\ inp' = x
          /\ Finish(LicenseCount(x.lic, x.repo, x.code, x.fn, x.enf,
                                 global_args.verbose, global_args.debug))
    /\ UNCHANGED <<raw_args, i, filtered_args, global_args, args, exc>>

MainBreakdownArgs(x) ==
    [lic |-> x.lic, dta |-> x.dta, dta_util |-> x.dta_util, scopes |-> x.scopes,
     repo |-> x.repo, enf |-> x.enf, code_supported |-> x.code_supported,
     code |-> x.code, csv_ok |-> x.csv_ok, json_ok |-> x.json_ok,
     skip_repos |-> args.skip_repos, csv_file |-> args.csv_file,
     json_file |-> args.json_file,
     verbose |-> global_args.verbose, debug |-> global_args.debug]

ExecuteBreakdown ==
    /\ pc = "execute"
    /\ args.sub = "breakdown"
    /\ \E x \in MainBreakdownInputs :
          /\ inp' = x
          /\ Finish(LicenseBreakdown(MainBreakdownArgs(x)))
    /\ UNCHANGED <<raw_args, i, filtered_args, global_args, args, exc>>

\* A KeyboardInterrupt raised once the arguments are parsed.  Inside the try
\* that runs the command it is caught: print if verbose, sys.exit(0).  Before
\* that try no handler catches it.
Interrupt ==
    /\ pc \in {"dispatch", "endpoint", "execute"}
    /\ IF pc = "execute"
       THEN /\ stdout' = stdout \o If(global_args.verbose,
                                      <<Text("\nExecution interrupted by user")>>)
            /\ Exit(0)
       ELSE /\ stdout' = stdout
            /\ Uncaught
    /\ UNCHANGED <<raw_args, i, filtered_args, global_args, args, calls, inp,
                   exc, exports>>

(***************************************************************************)
(* The program: one run of main() on a command line                        *)
(***************************************************************************)
Init ==
    /\ raw_args \in RawArgLists
    /\ pc = "start"
    /\ i = 1
    /\ filtered_args = <<>>
    /\ global_args = DefaultGlobalArgs
    /\ args = NoArgs
    /\ stdout = <<>>
    /\ exit_code = NotExited
    /\ calls = <<>>
    /\ inp = NoInput
    /\ exc = None
    /\ exports = <<>>

Next ==
    \/ CheckVersion
    \/ ScanStep
    \/ ParseStep
    \/ NoCommand
    \/ SetupCommand
    \/ ProfileCommand
    \/ LicenseNoSubcommand
    \/ LoadCredentials
    \/ Authenticate
    \/ CheckEndpoint
    \/ ExecuteShow
    \/ ExecuteCount
    \/ ExecuteBreakdown
    \/ Interrupt

Spec == Init /\ [][Next]_vars

(***************************************************************************)
(* The reporting commands on their own: one call on given answers          *)
(***************************************************************************)
Return(r) ==
    /\ stdout' = r.out
    /\ calls' = r.calls
    /\ exc' = r.exc
    /\ exports' = r.exports
    /\ pc' = IF r.exc = None THEN "returned" ELSE "raised"
    /\ UNCHANGED <<raw_args, i, filtered_args, global_args, args, exit_code, inp>>

InitCall(name, inputs) ==
    /\ raw_args = <<>>
    /\ pc = name
    /\ i = 1
    /\ filtered_args = <<>>
    /\ global_args = DefaultGlobalArgs
    /\ args = NoArgs
    /\ stdout = <<>>
    /\ exit_code = NotExited
    /\ calls = <<>>
    /\ inp \in inputs
    /\ exc = None
    /\ exports = <<>>

CallLicenseShow ==
    /\ pc = "license_show"
    /\ Return(LicenseShow(inp.all_licenses, inp.verbose, inp.debug))

InitShow == InitCall("license_show", ShowInputs)
SpecShow == InitShow /\ [][CallLicenseShow]_vars

CallLicenseCount ==
    /\ pc = "license_count"
    /\ Return(LicenseCount(inp.lic, inp.repo, inp.code, inp.fn, inp.enf,
                           inp.verbose, inp.debug))

InitCount == InitCall("license_count", CountInputs)
SpecCount == InitCount /\ [][CallLicenseCount]_vars

CallLicenseBreakdown ==
    /\ pc = "license_breakdown"
    /\ Return(LicenseBreakdown(inp))

InitBreakdown == InitCall("license_breakdown", BreakdownInputs)
SpecBreakdown == InitBreakdown /\ [][CallLicenseBreakdown]_vars

(***************************************************************************)
(* Properties of the argument preprocessor (specification Spec)            *)
(***************************************************************************)
\* the scan has run to its end
ScanFinished == pc \notin {"start", "scan"} /\ "--version" \notin Range(raw_args)

Positions == 1..Len(raw_args)

\* the tokens of raw at the positions of K, in their order
RECURSIVE Pick(_, _, _)
Pick(raw, K, k) ==
    IF k > Len(raw) THEN <<>>
    ELSE (IF k \in K THEN <<raw[k]>> ELSE <<>>) \o Pick(raw, K, k + 1)

\* the number of profile flags that stand, without a gap, right before k
ProfileRun(k) ==
    CHOOSE n \in 0..(k - 1) :
        /\ \A j \in (k - n)..(k - 1) : raw_args[j] \in ProfileFlags
        /\ (n = k - 1 \/ raw_args[k - n - 1] \notin ProfileFlags)

\* the positions the scan reads as the value of a profile flag: those with
\* an odd run of profile flags before them
ValuePositions == {k \in Positions : ProfileRun(k) % 2 = 1}

\* the positions right after any profile flag
AfterProfileFlag == {k \in Positions : k > 1 /\ raw_args[k - 1] \in ProfileFlags}

Max(S) == CHOOSE m \in S : \A n \in S : n <= m

\* C1 (as stated): after the scan, verbose (debug) is set exactly when a
\* verbose (debug) flag occurs anywhere in the command line, and the filtered
\* tokens are the tokens that are neither global flags nor profile values,
\* in their original order.
C1_EveryOccurrenceRecognized ==
    ScanFinished =>
        /\ global_args.verbose = (\E k \in Positions : raw_args[k] \in VerboseFlags)
        /\ global_args.debug = (\E k \in Positions : raw_args[k] \in DebugFlags)
        /\ filtered_args =
              Pick(raw_args,
                   {k \in Positions : raw_args[k] \notin GlobalFlags} \ AfterProfileFlag, 1)

\* C1 (amended): after the scan, verbose (debug) is set exactly when a verbose
\* (debug) flag occurs at a position that is not the value of a profile flag,
\* and the filtered tokens are the tokens that are neither global flags nor
\* profile values, in their original order.  A global flag in the value
\* position of a profile flag is removed without setting its option.
C1_FlagsRecognizedOutsideProfileValue ==
    ScanFinished =>
        /\ global_args.verbose =
              (\E k \in Positions \ ValuePositions : raw_args[k] \in VerboseFlags)
        /\ global_args.debug =
              (\E k \in Positions \ ValuePositions : raw_args[k] \in DebugFlags)
        /\ filtered_args =
              Pick(raw_args,
                   {k \in Positions : raw_args[k] \notin GlobalFlags} \ ValuePositions, 1)

\* "show -v": the flag after the subcommand
C1_Witness ==
    /\ ScanFinished
    /\ Len(raw_args) = 2
    /\ raw_args[1] = "show"
    /\ raw_args[2] \in VerboseFlags
    /\ global_args.verbose
    /\ filtered_args = <<"show">>

\* the profile flags that have a token after them
FlagsWithValue(flags) == {k \in flags : raw_args[k] \in ProfileFlags /\ k < Len(raw_args)}

\* filtered_args is made of tokens at positions outside K, in their order
FilteredAvoids(K) ==
    \E J \in SUBSET (Positions \ K) : filtered_args = Pick(raw_args, J, 1)

BeforeLast ==
    ScanFrom(SubSeq(raw_args, 1, Len(raw_args) - 1), 1, <<>>, DefaultGlobalArgs)

\* C3 (as stated): the scan index never passes the end of the command line by
\* more than one, and when the last token is a profile flag, the profile and
\* the filtered tokens after the scan are those the tokens before it give.
C3_DanglingFlagIgnored ==
    /\ pc = "scan" => i <= Len(raw_args) + 1
    /\ (ScanFinished /\ Len(raw_args) > 0 /\ raw_args[Len(raw_args)] \in ProfileFlags)
          => /\ global_args.profile = BeforeLast.g.profile
             /\ filtered_args = BeforeLast.filtered

\* C3 (amended): the same when the last token is a profile flag that is not
\* itself consumed as the value of the profile flag before it.
C3_DanglingActingFlagIgnored ==
    /\ pc = "scan" => i <= Len(raw_args) + 1
    /\ (ScanFinished /\ Len(raw_args) > 0 /\ raw_args[Len(raw_args)] \in ProfileFlags
           /\ Len(raw_args) \notin ValuePositions)
          => /\ global_args.profile = BeforeLast.g.profile
             /\ filtered_args = BeforeLast.filtered

\* "license show -p": the dangling flag is dropped, the profile is the default
C3_Witness ==
    /\ pc = "execute"
    /\ raw_args[Len(raw_args)] \in ProfileFlags
    /\ Len(raw_args) \notin ValuePositions
    /\ global_args.profile = "default"
    /\ filtered_args = <<"license", "show">>

\* C4: when --version is anywhere in the command line, main() never starts the
\* scan, never parses, never calls the platform client, and ends with the
\* version line printed and exit status 0.
C4_VersionShortCircuits ==
    "--version" \in Range(raw_args) =>
        /\ pc \in {"start", "exit"}
        /\ i = 1 /\ filtered_args = <<>> /\ global_args = DefaultGlobalArgs
        /\ args = NoArgs
        /\ calls = <<>>
        /\ pc = "exit" => /\ exit_code = 0
                          /\ stdout = <<Text("aqua_license_util 0.4.0")>>

\* "license -p --version" has exited with status 0
C4_Witness ==
    /\ pc = "exit"
    /\ exit_code = 0
    /\ Len(raw_args) = 3
    /\ raw_args[1] = "license"
    /\ raw_args[2] \in ProfileFlags
    /\ raw_args[3] = "--version"

(***************************************************************************)
(* Properties of license_breakdown (specification SpecBreakdown)           *)
(***************************************************************************)
\* the report a returned call printed last: the JSON document or the table
LastOut == stdout[Len(stdout)]

\* C5: without --skip-repos, the scopes of the breakdown are exactly those
\* that are keys of both the repo-count result and the enforcer-count result;
\* each carries the repo count of the repo result, and the code-repo count of
\* the code-repo result, or 0 when that query is unsupported or has no entry.
C5_InnerJoin ==
    (pc = "returned" /\ ~inp.skip_repos) =>
        LET keys == DOMAIN inp.repo.val \cap DOMAIN inp.enf.val
            coderepos(sc) ==
                IF inp.code_supported /\ sc \in DOMAIN inp.code.val
                THEN inp.code.val[sc] ELSE 0
        IN IF inp.verbose
           THEN /\ DOMAIN LastOut.rows = keys
                /\ \A sc \in keys :
                      /\ LastOut.rows[sc][1] = sc
                      /\ LastOut.rows[sc][2] = inp.repo.val[sc]
                      /\ LastOut.rows[sc][3] = coderepos(sc)
           ELSE /\ DOMAIN LastOut.obj = keys
                /\ \A sc \in keys :
                      /\ LastOut.obj[sc]["scope name"] = "\"" \o sc \o "\""
                      /\ LastOut.obj[sc]["repos"] = IntToStr(inp.repo.val[sc])
                      /\ LastOut.obj[sc]["code_repos"] = IntToStr(coderepos(sc))

\* a scope with repos but no enforcers is left out, another one is reported,
\* and the code-repo query is unsupported
C5_Witness ==
    /\ pc = "returned"
    /\ ~inp.skip_repos /\ ~inp.verbose /\ ~inp.code_supported
    /\ DOMAIN inp.repo.val = {"Global", "dev"}
    /\ DOMAIN inp.enf.val = {"Global"}
    /\ DOMAIN LastOut.obj = {"Global"}
    /\ LastOut.obj["Global"]["code_repos"] = "0"

ScopeNames == {inp.scopes.val[k]["name"] : k \in 1..Len(inp.scopes.val)}

\* C6: with --skip-repos, neither repo-count query is ever called; a call that
\* returns has called the enforcer-count query, reports exactly the known
\* scopes that the enforcer result has, each with repos 0, code_repos 0 and
\* the enforcer counts of the enforcer result.
C6_SkipRepos ==
    inp.skip_repos =>
        /\ "get_repo_count_by_scope" \notin Range(calls)
        /\ "get_code_repo_count_by_scope" \notin Range(calls)
        /\ pc = "returned" =>
              LET keys == ScopeNames \cap DOMAIN inp.enf.val
                  enf(sc) == inp.enf.val[sc]
              IN /\ "get_enforcer_count_by_scope" \in Range(calls)
                 /\ IF inp.verbose
                    THEN /\ DOMAIN LastOut.rows = keys
                         /\ \A sc \in keys :
                               LastOut.rows[sc] =
                                   <<sc, 0, 0, enf(sc)["agent"], enf(sc)["kube_enforcer"],
                                     enf(sc)["host_enforcer"], enf(sc)["micro_enforcer"],
                                     enf(sc)["nano_enforcer"], enf(sc)["pod_enforcer"]>>
                    ELSE /\ DOMAIN LastOut.obj = keys
                         /\ \A sc \in keys :
                               /\ DOMAIN LastOut.obj[sc] =
                                     {"scope name", "repos", "code_repos"} \cup DOMAIN enf(sc)
                               /\ LastOut.obj[sc]["repos"] = "0"
                               /\ LastOut.obj[sc]["code_repos"] = "0"
                               /\ \A e \in DOMAIN enf(sc) :
                                     LastOut.obj[sc][e] = IntToStr(enf(sc)[e])

\* a skipping call returned a scope whose repo and code-repo counts are not 0
\* on the platform
C6_Witness ==
    /\ pc = "returned"
    /\ inp.skip_repos /\ ~inp.verbose /\ inp.code_supported
    /\ inp.repo.ok /\ inp.code.ok
    /\ "Global" \in DOMAIN inp.repo.val /\ inp.repo.val["Global"] = 7
    /\ "Global" \in DOMAIN inp.code.val /\ inp.code.val["Global"] = 3
    /\ "Global" \in DOMAIN LastOut.obj
    /\ LastOut.obj["Global"]["repos"] = "0"
    /\ LastOut.obj["Global"]["agent"] = "2"

(***************************************************************************)
(* Properties of license_show (specification SpecShow)                     *)
(***************************************************************************)
\* the active_production record and the active-license count of the input
InActiveProduction ==
    Get(Get(inp.all_licenses.val, "resources", EmptyDict), "active_production", EmptyDict)

InNumActive == Get(Get(inp.all_licenses.val, "details", EmptyDict), "num_active", 0)

\* the totals printed in structured mode
ShowPrinted == pc = "returned" /\ ~inp.verbose /\ ~IsEmpty(inp.all_licenses.val)

\* what the claim says the output holds for a field of value v under key k
TotalsValue(k, v) ==
    IF v = -1 /\ k # "dta_repos" THEN "\"unlimited\"" ELSE IntToStr(v)

\* C7 (as stated): in structured mode the output holds every field of the
\* active-production record under its key, -1 replaced by "unlimited" except
\* for dta_repos, every other value unchanged, and num_active added with the
\* active-license count.
C7_EveryFieldCopied ==
    ShowPrinted =>
        LET totals == stdout[1].obj
        IN /\ DOMAIN totals = DOMAIN InActiveProduction \cup {"num_active"}
           /\ \A k \in DOMAIN InActiveProduction :
                 totals[k] = TotalsValue(k, InActiveProduction[k])
           /\ "num_active" \notin DOMAIN InActiveProduction
                 => totals["num_active"] = IntToStr(InNumActive)

\* C7 (amended): the same for every field but one named num_active: the
\* num_active of the output is always the active-license count, also when
\* the active-production record has a field of that name.
C7_EveryFieldButNumActiveCopied ==
    ShowPrinted =>
        LET totals == stdout[1].obj
        IN /\ DOMAIN totals = DOMAIN InActiveProduction \cup {"num_active"}
           /\ \A k \in DOMAIN InActiveProduction \ {"num_active"} :
                 totals[k] = TotalsValue(k, InActiveProduction[k])
           /\ totals["num_active"] = IntToStr(InNumActive)

\* a limit of -1, a DTA count of -1 and a plain value were printed
C7_Witness ==
    /\ ShowPrinted
    /\ DOMAIN InActiveProduction = {"num_repositories", "dta_repos", "vshield"}
    /\ InActiveProduction["num_repositories"] = -1
    /\ InActiveProduction["dta_repos"] = -1
    /\ InActiveProduction["vshield"] = 1500
    /\ InNumActive = 2
    /\ stdout[1].obj["num_repositories"] = "\"unlimited\""
    /\ stdout[1].obj["dta_repos"] = "-1"
    /\ stdout[1].obj["num_active"] = "2"

(***************************************************************************)
(* Properties of license_count (specification SpecCount)                   *)
(***************************************************************************)
\* the utilization report was printed
CountPrinted == pc = "returned" /\ ~IsEmpty(inp.lic.val)

CountOut == stdout[CHOOSE k \in 1..Len(stdout) : stdout[k].kind \in {"table", "json"}]

\* the keys of the limits record that the utilization table reads as limits
LimitKeys == {CountResources[k][2] : k \in 1..Len(CountResources)} \ {None}

\* the usage count the inputs give for a usage key: 0 for a failed query
InEnforcers == IF inp.enf.ok THEN inp.enf.val ELSE [k \in Range(EnforcerKeys) |-> 0]

InUsed(usage_key) ==
    CASE usage_key = "repositories" -> IF inp.repo.ok THEN inp.repo.val ELSE 0
      [] usage_key = "code_repositories" -> IF inp.code.ok THEN inp.code.val ELSE 0
      [] usage_key = "functions" -> IF inp.fn.ok THEN inp.fn.val ELSE 0
      [] OTHER -> InEnforcers[UsageEnforcerKey[usage_key]]

\* the limit the inputs give for a limit key: 0 for a missing key
InLimit(limit_key) ==
    IF limit_key = None THEN -1
    ELSE IF limit_key \in DOMAIN inp.lic.val THEN inp.lic.val[limit_key] ELSE 0

\* C8: in the utilization output, a limit of -1 is never shown as -1 (the
\* table shows "Unlimited", the JSON document does not hold -1 for it), and
\* the usage counts are shown as the numbers they are.
C8_NoRawSentinel ==
    CountPrinted =>
        IF inp.verbose
        THEN \A k \in 1..Len(CountResources) :
                /\ InLimit(CountResources[k][2]) = -1
                      => CountOut.rows[k][2] = "Unlimited"
                /\ CountOut.rows[k][3] = FmtComma(InUsed(CountResources[k][1]))
        ELSE /\ \A key \in LimitKeys \cap DOMAIN inp.lic.val :
                   inp.lic.val[key] = -1 => CountOut.obj.limits[key] # "-1"
             /\ \A u \in DOMAIN CountOut.obj.usage :
                   CountOut.obj.usage[u] = IntToStr(InUsed(u))

Abs(n) == IF n < 0 THEN -n ELSE n

\* cell is used / limit * 100 rounded to one decimal, followed by %
IsRoundedPct(cell, used, limit) ==
    \E t \in 0..((1000 * used) \div limit + 1) :
        /\ 2 * Abs(t * limit - 1000 * used) <= limit
        /\ cell = NatToStr(t \div 10) \o "." \o Digit(t % 10) \o "%"

\* C9: in every row of the utilization table, with used the usage count (0
\* for a failed query) and L the limit (0 for a missing key), the percentage
\* cell is used / L * 100 rounded to one decimal when L > 0, "25.0%" for
\* used = 50 and L = 200, and "-" when L is -1 or 0.
C9_Percentage ==
    (CountPrinted /\ inp.verbose) =>
        \A k \in 1..Len(CountResources) :
            LET used == InUsed(CountResources[k][1])
                L == InLimit(CountResources[k][2])
                cell == CountOut.rows[k][4]
            IN /\ L > 0 => IsRoundedPct(cell, used, L)
               /\ (used = 50 /\ L = 200) => cell = "25.0%"
               /\ L \in {-1, 0} => cell = "-"

\* 50 of 200 repositories, unlimited enforcers, and no limit key for functions
C9_Witness ==
    /\ CountPrinted /\ inp.verbose
    /\ InUsed("repositories") = 50 /\ InLimit("num_repositories") = 200
    /\ CountOut.rows[1][4] = "25.0%"
    /\ InLimit("num_protected_kube_nodes") = -1
    /\ CountOut.rows[3][4] = "-"
    /\ "num_functions" \notin DOMAIN inp.lic.val
    /\ CountOut.rows[7][4] = "-"

\* C10: with a license record at hand, license_count does not raise, whatever
\* the count queries do (fail, or answer without some enforcer type): it
\* returns with a report in which each unavailable count is 0.
C10_NeverRaisesOnPartialData ==
    (inp.lic.ok /\ ~IsEmpty(inp.lic.val)) =>
        /\ pc # "raised"
        /\ pc = "returned" =>
              /\ \E k \in 1..Len(stdout) : stdout[k].kind \in {"table", "json"}
              /\ ~inp.verbose =>
                    \A u \in {"repositories", "code_repositories", "functions"} :
                        CountOut.obj.usage[u] = IntToStr(InUsed(u))

(***************************************************************************)
(* license_breakdown run by main(): failing sub-queries                    *)
(***************************************************************************)
\* main() ran license_breakdown and reached a sys.exit
BreakdownRan ==
    /\ pc = "exit"
    /\ args.command = "license" /\ args.sub = "breakdown"
    /\ "get_licences" \in Range(calls)

\* C11: when main() runs license_breakdown and the license, scope and enforcer
\* queries and the exporters succeed, the run ends with exit code 0 and the
\* rendered breakdown (a table when verbose, else the JSON structure, never an
\* error object) as its last output, whichever of the DTA license, DTA
\* utilization, repo-count and code-repo-count queries fail.
C11_SubQueryFailureNeverAborts ==
    (/\ BreakdownRan
     /\ inp.lic.ok /\ inp.scopes.ok /\ inp.enf.ok
     /\ args.json_file = None \/ inp.json_ok)
    => /\ exit_code = 0
       /\ stdout # <<>>
       /\ LastOut.kind = IF global_args.verbose THEN "table" ELSE "json"
       /\ ~global_args.verbose => "error" \notin DOMAIN LastOut.obj

(***************************************************************************)
(* main(): configuration errors, exit codes, error reports, call order     *)
(***************************************************************************)
\* the queries the reporting commands send to the platform
DataSourceQueries ==
    {"get_all_licenses", "get_licences", "get_repo_count", "get_code_repo_count",
     "get_function_count", "get_enforcer_count", "api_get_dta_license",
     "api_post_dta_license_utilization", "get_app_scopes",
     "get_repo_count_by_scope", "get_enforcer_count_by_scope",
     "get_code_repo_count_by_scope"}

IsText(o, msg) == o.kind = "text" /\ o.text = msg

IsErrorJson(o, msg) ==
    o.kind = "json" /\ DOMAIN o.obj = {"error"} /\ o.obj["error"] = msg

\* the report of msg in the form the verbose option selects
Reported(o, sentence, msg) ==
    IF global_args.verbose THEN IsText(o, sentence) ELSE IsErrorJson(o, msg)

\* main() ended on the missing-credentials report
EndedOnNoCredentials ==
    pc = "exit" /\ stdout # <<>> /\ LastOut = NoCredentialsReport

\* main() ended on the missing-endpoint report
EndedOnNoEndpoint ==
    /\ pc = "exit" /\ stdout # <<>>
    /\ Reported(LastOut, "Error: CSP_ENDPOINT environment variable not set",
                "CSP_ENDPOINT environment variable not set")

\* C12: a run of a license command that finds the credentials missing or
\* CSP_ENDPOINT unset ends with exit code 1 and has called neither
\* authenticate() nor any data-source query.
C12_ConfigErrorsBeforeNetwork ==
    (EndedOnNoCredentials \/ EndedOnNoEndpoint)
    => /\ exit_code = 1
       /\ Range(calls) \cap ({"authenticate"} \cup DataSourceQueries) = {}

\* main() ended on the report of a failed authentication
EndedOnAuthFailure ==
    /\ pc = "exit" /\ stdout # <<>>
    /\ Reported(LastOut, "Authentication failed: " \o ClientError,
                "Authentication failed: " \o ClientError)

\* str(e) of the exceptions a command can raise: a failing query or export,
\* or the KeyError of a missing key
RuntimeErrors ==
    {ClientError} \cup
    {"'" \o k \o "'" : k \in Range(EnforcerKeys) \cup Range(BreakdownTableKeys)}

\* main() ended on the report of an exception raised by the command
EndedOnRuntimeError ==
    /\ pc = "exit" /\ stdout # <<>>
    /\ Range(calls) \cap DataSourceQueries # {}
    /\ \E e \in RuntimeErrors : Reported(LastOut, "Error: " \o e, e)

\* the conditions that end with exit code 1
EndedOnError ==
    \/ pc = "exit" /\ ~HasVersion(raw_args) /\ args.command = None /\ ~args.error
    \/ EndedOnNoCredentials
    \/ EndedOnAuthFailure
    \/ EndedOnNoEndpoint
    \/ EndedOnRuntimeError

\* C13: a run that ends on a missing command, missing credentials, a failed
\* authentication, a missing CSP_ENDPOINT or an exception of the command ends
\* with exit code 1; a run that a keyboard interrupt ends, wherever it
\* arrives, ends with exit code 0; every other run ends with exit code 0.
C13_ExitCodes ==
    /\ pc = "interrupted" => exit_code = 0
    /\ pc = "exit" => exit_code = IF EndedOnError THEN 1 ELSE 0

\* the plain sentences the code prints for an error or empty condition
ErrorSentences ==
    {"Error: No license subcommand specified", "No credentials found.",
     "Authentication failed: " \o ClientError,
     "Error: CSP_ENDPOINT environment variable not set",
     "No license information found",
     "No active production license totals found"}
    \cup {"Error: " \o e : e \in RuntimeErrors}

\* the positions of stdout that hold a plain error sentence
SentencesPrinted ==
    {k \in 1..Len(stdout) :
        stdout[k].kind = "text" /\ stdout[k].text \in ErrorSentences}

\* the positions of stdout that hold a JSON object with an "error" key
ErrorObjectsPrinted ==
    {k \in 1..Len(stdout) :
        stdout[k].kind = "json" /\ "error" \in DOMAIN stdout[k].obj}

\* a license command ended on one of the error or empty conditions
MissingSubcommand == args.command = "license" /\ args.sub = None /\ ~args.error

MissingCredentials == calls = <<"load_profile_credentials">>

AuthFailureOrMissingEndpoint ==
    calls = <<"load_profile_credentials", "authenticate">> /\ exit_code = 1

NoLicenseInformation ==
    \/ /\ args.sub = "show" /\ "get_all_licenses" \in Range(calls)
       /\ inp.all_licenses.ok /\ IsEmpty(inp.all_licenses.val)
    \/ /\ args.sub = "count" /\ "get_licences" \in Range(calls)
       /\ inp.lic.ok /\ IsEmpty(inp.lic.val)

AbsentTotalsRecord ==
    /\ args.sub = "show" /\ "get_all_licenses" \in Range(calls)
    /\ inp.all_licenses.ok /\ ~IsEmpty(inp.all_licenses.val)
    /\ IsEmpty(Get(Get(inp.all_licenses.val, "resources", EmptyDict),
                   "active_production", EmptyDict))

RuntimeError == exit_code = 1 /\ Range(calls) \cap DataSourceQueries # {}

ErrorOrEmptyCondition ==
    /\ pc = "exit"
    /\ \/ MissingSubcommand
       \/ MissingCredentials
       \/ AuthFailureOrMissingEndpoint
       \/ NoLicenseInformation
       \/ AbsentTotalsRecord
       \/ RuntimeError

\* C14: a run of a license command that ends on an error or empty condition
\* (no subcommand, no credentials, failed authentication, no endpoint, no
\* license information, no totals record, an exception of the command) has
\* printed a JSON object with an "error" key and no plain error sentence when
\* verbose is off, and a plain error sentence and no such object when it is on.
C14_ErrorForm ==
    ErrorOrEmptyCondition =>
        IF global_args.verbose
        THEN SentencesPrinted # {} /\ ErrorObjectsPrinted = {}
        ELSE ErrorObjectsPrinted # {} /\ SentencesPrinted = {}

(***************************************************************************)
(* license_breakdown: what the exporters are handed                        *)
(***************************************************************************)
\* the files license_breakdown was asked to write, in the order it writes them
ExportsAsked ==
    If(inp.csv_file # None, <<[kind |-> "csv", file |-> inp.csv_file]>>)
    \o If(inp.json_file # None, <<[kind |-> "json", file |-> inp.json_file]>>)

CallPositions(name) == {k \in 1..Len(calls) : calls[k] = name}

NetworkCalls == {"authenticate"} \cup DataSourceQueries

\* C16: in every state of a run of main(): authenticate() has been called at
\* most once, and only for a license command with a subcommand, after
\* load_profile_credentials and with no missing-credentials report printed;
\* a setup or profile command, or a license command without subcommand, is
\* about to end or has ended, with no call of authenticate() or of a
\* data-source query; and every data-source query comes after the call of
\* authenticate(), which did not fail.
C16_DispatchOrder ==
    /\ Cardinality(CallPositions("authenticate")) <= 1
    /\ \A k \in CallPositions("authenticate") :
          /\ args.command = "license"
          /\ args.sub \in {"show", "count", "breakdown"}
          /\ \E j \in 1..(k - 1) : calls[j] = "load_profile_credentials"
          /\ \A n \in 1..Len(stdout) : stdout[n] # NoCredentialsReport
    /\ (args.command \in {"setup", "profile"}
        \/ (args.command = "license" /\ args.sub = None))
       => /\ pc \in {"dispatch", "exit", "interrupted"}
          /\ Range(calls) \cap NetworkCalls = {}
    /\ \A k \in 1..Len(calls) :
          calls[k] \in DataSourceQueries =>
             /\ \E j \in 1..(k - 1) : calls[j] = "authenticate"
             /\ \A n \in 1..Len(stdout) :
                   ~Reported(stdout[n], "Authentication failed: " \o ClientError,
                             "Authentication failed: " \o ClientError)

\* a license command that authenticated once and then sent its queries
C16_Witness ==
    /\ pc = "exit" /\ exit_code = 0
    /\ args.command = "license" /\ args.sub = "count"
    /\ Len(calls) > 3
    /\ calls[1] = "load_profile_credentials"
    /\ calls[2] = "authenticate"
    /\ \A k \in 3..Len(calls) : calls[k] \in DataSourceQueries

====
